---- MODULE Spec2Model ----
(***************************************************************************)
(* The simulation core of space-sim: GameState (physics_engine/            *)
(* game_state.py), PhysicsEngine (physics_engine/physics.py), the entity   *)
(* records (entities/*.py) and the game loop that drives update            *)
(* (main.py).                                                              *)
(*                                                                         *)
(* Numbers.  A Position holds Python numbers: ints for ships, mines and    *)
(* walls, floats for lasers in flight.  Coordinates are kept here in       *)
(* fixed point, SUB steps to the cell: the cell (x, y) is                  *)
(* <<x * SUB, y * SUB>>.  Time is counted in the unit in which a laser     *)
(* travels one fixed-point step: 1 / (LASER_SPEED * SUB) seconds.          *)
(* The arena is a scaled-down map built the way config/game_config.py      *)
(* builds the 30 x 20 one (GridCols, GridRows are model bounds).           *)
(***************************************************************************)
EXTENDS Integers, Sequences, FiniteSets, TLC

VARIABLES
    players,           \* GameState.players: dict id -> Spaceship, in insertion order
    lasers,            \* GameState.lasers: list of Laser
    mines,             \* GameState.mines: list of Mine (its position)
    walls,             \* GameState.walls: list of Position, read for membership only
    is_flashing,       \* GameState.is_flashing
    flash_start_time,  \* GameState.flash_start_time
    game_over,         \* GameState.game_over
    now,               \* time.time(), in time units
    last,              \* the last call that changed the state: its name and its player id
    steps,             \* successful commands and update calls so far (bounded by MaxSteps)
    pc,                \* where the game-loop thread stands inside update
    it                 \* the loop state of the game-loop thread inside update

vars == <<players, lasers, mines, walls, is_flashing, flash_start_time,
          game_over, now, last, steps, pc, it>>

-----------------------------------------------------------------------------
(* Bounds of the model *)
GridCols == 9
GridRows == 9
SUB == 2
MaxSteps == 6

(* config/game_config.py *)
CELL_SIZE == 30
SCREEN_WIDTH == GridCols * CELL_SIZE
SCREEN_HEIGHT == GridRows * CELL_SIZE
GRID_WIDTH == SCREEN_WIDTH \div CELL_SIZE
GRID_HEIGHT == SCREEN_HEIGHT \div CELL_SIZE
SHIELD_DURATION == 3
INITIAL_LIFES == 5
LASER_SPEED == 10
\* the radius of a ship's environment view, in cells (get_environment_state)
VIEW_RADIUS == 5
MINE_DAMAGE == 3
LASER_DAMAGE == 1

UnitsPerSecond == LASER_SPEED * SUB
ShieldUnits == SHIELD_DURATION * UnitsPerSecond
\* FLASH_DURATION = 0.5 seconds
FlashUnits == UnitsPerSecond \div 2

None == "None"

Cell(x, y) == <<x * SUB, y * SUB>>

BORDER_WALLS ==
    {Cell(x, 1) : x \in 0..(GRID_WIDTH - 1)} \cup
    {Cell(x, GRID_HEIGHT - 1) : x \in 0..(GRID_WIDTH - 1)} \cup
    {Cell(0, y) : y \in 0..(GRID_HEIGHT - 1)} \cup
    {Cell(GRID_WIDTH - 1, y) : y \in 0..(GRID_HEIGHT - 1)}

\* the centre of the grid (add_player, lines 47-48)
center_x == GRID_WIDTH \div 2
center_y == GRID_HEIGHT \div 2

\* the obstacle layout: it leaves a corridor through the centre, from the top
\* wall down to the last spawn position
OBSTACLE_WALLS2 ==
    {Cell(x, y) : x \in (1..(GRID_WIDTH - 2)) \ {center_x}, y \in 2..(GRID_HEIGHT - 2)}
      \cup {Cell(center_x, center_y + 3)}

WALLS == BORDER_WALLS \cup OBSTACLE_WALLS2

\* two mines in the corridor, in the cells ahead of the centre
MINES == <<Cell(center_x, 2), Cell(center_x, 3)>>

(* The inputs of the public interface *)
Ids == {"player1", "players"}
NameInputs == {None}
Directions == {"left", "right", "up"}
\* dt of one update call, in time units: none, a fraction of a cell, one
\* cell, and a frame longer than the shield lasts.
DtChoices == {0, 1, SUB, ShieldUnits + 1}

-----------------------------------------------------------------------------
(* Python's int() on a float: truncation toward zero *)
Trunc(v) == IF v >= 0 THEN v \div SUB ELSE -((-v) \div SUB)

GridCell(position) == Cell(Trunc(position[1]), Trunc(position[2]))

Min(S) == CHOOSE m \in S : \A n \in S : m <= n

RemoveAt(s, k) == [j \in 1..(Len(s) - 1) |-> IF j < k THEN s[j] ELSE s[j + 1]]

(* physics_engine/physics.py *)
check_wall_collision(position, w) == GridCell(position) \in w

check_mine_collision(position, mine_position) ==
    /\ Trunc(position[1]) = Trunc(mine_position[1])
    /\ Trunc(position[2]) = Trunc(mine_position[2])

check_laser_collision(laser_position, target_position) ==
    /\ Trunc(laser_position[1]) = Trunc(target_position[1])
    /\ Trunc(laser_position[2]) = Trunc(target_position[2])

InWorld(position) ==
    /\ position[1] >= 0
    /\ position[1] < (SCREEN_WIDTH \div CELL_SIZE) * SUB
    /\ position[2] >= 0
    /\ position[2] < (SCREEN_HEIGHT \div CELL_SIZE) * SUB

is_valid_move_NoBounds(position, w) == ~check_wall_collision(position, w)

is_valid_move_NoWalls(position, w) == InWorld(position)

is_valid_move(position, w) ==
    /\ ~check_wall_collision(position, w)
    /\ InWorld(position)

\* the laser after  position += direction * dt * speed
\* update_laser_position without its two position assignments
MovedLaser_Still(laser, dt) == laser

MovedLaser(laser, dt) ==
    [laser EXCEPT !.position = <<laser.position[1] + laser.direction[1] * dt,
                                 laser.position[2] + laser.direction[2] * dt>>]

\* the value update_laser_position returns
update_laser_position(laser, dt) == InWorld(MovedLaser(laser, dt).position)

(* entities/spaceship.py *)
\* round(math.sin(math.radians(r))) and round(math.cos(math.radians(r)))
RoundSin(r) == CASE r = 0 -> 0 [] r = 90 -> 1 [] r = 180 -> 0 [] r = 270 -> -1
RoundCos(r) == CASE r = 0 -> 1 [] r = 90 -> 0 [] r = 180 -> -1 [] r = 270 -> 0

get_direction_vector(rotation) == <<RoundSin(rotation), -RoundCos(rotation)>>

Spaceship(name) ==
    [id |-> None, name |-> name, position |-> Cell(1, 1), rotation |-> 0,
     active |-> TRUE, lifes |-> INITIAL_LIFES, shield_active |-> FALSE,
     shield_available |-> TRUE, shield_used |-> FALSE, shield_start_time |-> 0]

(* entities/laser.py *)
Laser(position, direction, owner_id) ==
    [position |-> position, direction |-> direction, owner_id |-> owner_id,
     active |-> TRUE]

-----------------------------------------------------------------------------
(* The registry: a dict in insertion order *)
Registered(ps) == {ps[k].id : k \in 1..Len(ps)}

IndexOf(ps, id) == CHOOSE k \in 1..Len(ps) : ps[k].id = id

Get(ps, id) == ps[IndexOf(ps, id)]

\* it: the index i of a running loop, the length n of what it iterates over as
\* taken when the loop began, the number of lasers it has removed, and dt
Idle == [i |-> 0, n |-> 0, removed |-> 0, dt |-> 0]

Init ==
    /\ players = <<>>
    /\ lasers = <<>>
    /\ mines = MINES
    /\ walls = WALLS
    /\ is_flashing = FALSE
    /\ flash_start_time = 0
    /\ game_over = FALSE
    /\ now = 0
    /\ last = [op |-> "init", id |-> None]
    /\ steps = 0
    /\ pc = "idle"
    /\ it = Idle

\* A call that returns False has changed nothing: it is a stuttering step.
\* A call that returns True is recorded in last and counted in steps.
Returns(op, id, ret) ==
    /\ ret => steps < MaxSteps
    /\ last' = IF ret THEN [op |-> op, id |-> id] ELSE last
    /\ steps' = IF ret THEN steps + 1 ELSE steps
    /\ UNCHANGED <<walls, game_over, now, pc, it>>

-----------------------------------------------------------------------------
(* GameState.add_player *)
spawn_positions ==
    <<Cell(center_x, center_y), Cell(center_x + 3, center_y),
      Cell(center_x - 3, center_y), Cell(center_x, center_y + 3)>>

Occupied(ps, pos) == \E k \in 1..Len(ps) : ps[k].position = pos

SpawnFree_IgnoreShips(ps, w, pos) == is_valid_move(pos, w)

SpawnFree(ps, w, pos) == is_valid_move(pos, w) /\ ~Occupied(ps, pos)

FindSpawn_Last(ps, w) ==
    LET free == {k \in 1..Len(spawn_positions) : SpawnFree(ps, w, spawn_positions[k])}
    IN  IF free = {} THEN 0 ELSE CHOOSE m \in free : \A n \in free : m >= n

\* the index of the first available spawn position, 0 for None
FindSpawn(ps, w) ==
    LET free == {k \in 1..Len(spawn_positions) : SpawnFree(ps, w, spawn_positions[k])}
    IN  IF free = {} THEN 0 ELSE Min(free)

DefaultName(ps) == "Player " \o ToString(Len(ps) + 1)

NewPlayer_ShieldSpent(ps, spawn_pos, player_id, name) ==
    [Spaceship(name) EXCEPT
        !.position = spawn_pos,
        !.lifes = INITIAL_LIFES,
        !.shield_available = FALSE,
        !.shield_used = TRUE,
        !.id = player_id,
        !.name = IF name = None \/ name = "" THEN DefaultName(ps) ELSE name]

\* the Spaceship that add_player builds and sets up (lines 71-80)
NewPlayer(ps, spawn_pos, player_id, name) ==
    [Spaceship(name) EXCEPT
        !.position = spawn_pos,
        !.lifes = INITIAL_LIFES,
        !.shield_available = TRUE,
        !.shield_used = FALSE,
        !.id = player_id,
        !.name = IF name = None \/ name = "" THEN DefaultName(ps) ELSE name]

add_player_call_Overwrite(ps, w, player_id, name) ==
    LET rest == IF player_id \in Registered(ps)
                THEN RemoveAt(ps, IndexOf(ps, player_id)) ELSE ps
        spawn_pos == FindSpawn(rest, w)
    IN  IF spawn_pos = 0
        THEN [ret |-> FALSE, players |-> ps]
        ELSE [ret |-> TRUE,
              players |-> Append(rest, NewPlayer(rest, spawn_positions[spawn_pos],
                                                 player_id, name))]

add_player_call(ps, w, player_id, name) ==
    IF player_id \in Registered(ps)
    THEN [ret |-> FALSE, players |-> ps]
    ELSE LET spawn_pos == FindSpawn(ps, w)
         IN  IF spawn_pos = 0
             THEN [ret |-> FALSE, players |-> ps]
             ELSE [ret |-> TRUE,
                   players |-> Append(ps, NewPlayer(ps, spawn_positions[spawn_pos],
                                                    player_id, name))]

add_player(player_id, name) ==
    LET r == add_player_call(players, walls, player_id, name)
    IN  /\ players' = r.players
        /\ Returns("add_player", player_id, r.ret)
        /\ UNCHANGED <<lasers, mines, is_flashing, flash_start_time>>

(* GameState.remove_player *)
remove_player_call(ps, player_id) ==
    IF player_id \notin Registered(ps)
    THEN [ret |-> FALSE, players |-> ps]
    ELSE [ret |-> TRUE, players |-> RemoveAt(ps, IndexOf(ps, player_id))]

remove_player_WithLasers(player_id) ==
    LET r == remove_player_call(players, player_id)
    IN  /\ players' = r.players
        /\ lasers' = IF r.ret
                     THEN SelectSeq(lasers, LAMBDA l : l.owner_id # player_id)
                     ELSE lasers
        /\ Returns("remove_player", player_id, r.ret)
        /\ UNCHANGED <<mines, is_flashing, flash_start_time>>

remove_player(player_id) ==
    LET r == remove_player_call(players, player_id)
    IN  /\ players' = r.players
        /\ Returns("remove_player", player_id, r.ret)
        /\ UNCHANGED <<lasers, mines, is_flashing, flash_start_time>>

(* GameState.activate_shield *)
ShieldRefused_Reusable(player) == ~player.shield_available /\ player.shield_active

\* not player.shield_available or player.shield_used
ShieldRefused(player) == ~player.shield_available \/ player.shield_used

ShieldOn(player, t) ==
    [player EXCEPT !.shield_active = TRUE, !.shield_available = FALSE,
                   !.shield_used = TRUE, !.shield_start_time = t]

activate_shield_call(ps, player_id, t) ==
    IF player_id \notin Registered(ps) \/ ShieldRefused(Get(ps, player_id))
    THEN [ret |-> FALSE, players |-> ps]
    ELSE [ret |-> TRUE,
          players |-> [ps EXCEPT ![IndexOf(ps, player_id)] = ShieldOn(@, t)]]

activate_shield(player_id) ==
    LET r == activate_shield_call(players, player_id, now)
    IN  /\ players' = r.players
        /\ Returns("activate_shield", player_id, r.ret)
        /\ UNCHANGED <<lasers, mines, is_flashing, flash_start_time>>

(* GameState.move_player *)
\* not player or not player.active, the guard of move, fire and rotate
Refused_IgnoreActive(ps, player_id) == player_id \notin Registered(ps)

Refused(ps, player_id) ==
    player_id \notin Registered(ps) \/ ~Get(ps, player_id).active

new_position(player) ==
    <<player.position[1] + get_direction_vector(player.rotation)[1] * SUB,
      player.position[2] + get_direction_vector(player.rotation)[2] * SUB>>

move_player_call_MoveAnyway(ps, w, player_id) ==
    IF Refused(ps, player_id)
    THEN [ret |-> FALSE, players |-> ps]
    ELSE LET player == Get(ps, player_id)
         IN  [ret |-> is_valid_move(new_position(player), w),
              players |-> [ps EXCEPT ![IndexOf(ps, player_id)].position =
                                         new_position(player)]]

move_player_call(ps, w, player_id) ==
    IF Refused(ps, player_id)
    THEN [ret |-> FALSE, players |-> ps]
    ELSE LET player == Get(ps, player_id)
         IN  IF is_valid_move(new_position(player), w)
             THEN [ret |-> TRUE,
                   players |-> [ps EXCEPT ![IndexOf(ps, player_id)].position =
                                              new_position(player)]]
             ELSE [ret |-> FALSE, players |-> ps]

move_player_DragLasers(player_id) ==
    LET r == move_player_call(players, walls, player_id)
    IN  /\ players' = r.players
        /\ lasers' = IF r.ret
                     THEN [j \in 1..Len(lasers) |->
                              IF lasers[j].owner_id = player_id
                              THEN [lasers[j] EXCEPT
                                       !.position = Get(r.players, player_id).position]
                              ELSE lasers[j]]
                     ELSE lasers
        /\ Returns("move_player", player_id, r.ret)
        /\ UNCHANGED <<mines, is_flashing, flash_start_time>>

move_player(player_id) ==
    LET r == move_player_call(players, walls, player_id)
    IN  /\ players' = r.players
        /\ Returns("move_player", player_id, r.ret)
        /\ UNCHANGED <<lasers, mines, is_flashing, flash_start_time>>

(* GameState.fire_laser *)
fire_direction_Math(rotation) == <<RoundCos(rotation), RoundSin(rotation)>>

\* Position(round(sin(angle)), -round(cos(angle)))  (lines 203-207)
fire_direction(rotation) == <<RoundSin(rotation), -RoundCos(rotation)>>

fire_laser_call(ps, ls, player_id) ==
    IF Refused(ps, player_id)
    THEN [ret |-> FALSE, lasers |-> ls]
    ELSE LET player == Get(ps, player_id)
         IN  [ret |-> TRUE,
              lasers |-> Append(ls, Laser(player.position,
                                          fire_direction(player.rotation),
                                          player_id))]

fire_laser(player_id) ==
    LET r == fire_laser_call(players, lasers, player_id)
    IN  /\ lasers' = r.lasers
        /\ Returns("fire_laser", player_id, r.ret)
        /\ UNCHANGED <<players, mines, is_flashing, flash_start_time>>

(* GameState.rotate_player *)
Rotated_NoWrap(rotation, direction) ==
    IF direction = "right" THEN rotation + 90 ELSE rotation - 90

\* (rotation + 90) % 360 and (rotation - 90) % 360  (lines 220-223)
Rotated(rotation, direction) ==
    IF direction = "right" THEN (rotation + 90) % 360 ELSE (rotation - 90) % 360

rotate_player_call(ps, player_id, direction) ==
    IF Refused(ps, player_id)
    THEN [ret |-> FALSE, players |-> ps]
    ELSE IF direction \in {"right", "left"}
         THEN [ret |-> TRUE,
               players |-> [ps EXCEPT ![IndexOf(ps, player_id)].rotation =
                                          Rotated(@, direction)]]
         ELSE [ret |-> FALSE, players |-> ps]

rotate_player(player_id, direction) ==
    LET r == rotate_player_call(players, player_id, direction)
    IN  /\ players' = r.players
        /\ Returns("rotate_player", player_id, r.ret)
        /\ UNCHANGED <<lasers, mines, is_flashing, flash_start_time>>

-----------------------------------------------------------------------------
(* The read projections *)
Abs(v) == IF v < 0 THEN -v ELSE v

\* dx = e.x - player.position.x, dy = e.y - player.position.y
Relative(position, player) ==
    <<position[1] - player.position[1], position[2] - player.position[2]>>

InRadius_Strict(d) == Abs(d[1]) < VIEW_RADIUS * SUB /\ Abs(d[2]) < VIEW_RADIUS * SUB

\* abs(dx) <= 5 and abs(dy) <= 5, in cells
InRadius(d) == Abs(d[1]) <= VIEW_RADIUS * SUB /\ Abs(d[2]) <= VIEW_RADIUS * SUB

\* the list [dx, dy] of the positions of a list that are within the radius
RelativeList(positions, player) ==
    LET near == SelectSeq(positions, LAMBDA e : InRadius(Relative(e, player)))
    IN  [j \in 1..Len(near) |-> Relative(near[j], player)]

\* get_player_state: the dict with the one key 'players'
get_player_state(ps) ==
    [players |->
        [pid \in Registered(ps) |->
            LET p == Get(ps, pid)
            IN  [position |-> p.position, rotation |-> p.rotation, lifes |-> p.lifes,
                 shield_active |-> p.shield_active,
                 shield_available |-> p.shield_available,
                 active |-> p.active, name |-> p.name]]]

\* get_environment_state: a dict keyed by player id.  self.walls never
\* changes and is kept as a set here, so the walls of a view are a set too.
get_environment_state(ps, w, ms, ls, over) ==
    [player_id \in Registered(ps) |->
        LET player == Get(ps, player_id)
        IN  [walls |-> {Relative(c, player) : c \in {c \in w : InRadius(Relative(c, player))}},
             mines |-> RelativeList(ms, player),
             lasers |-> RelativeList([j \in 1..Len(ls) |-> ls[j].position], player),
             game_over |-> over]]

\* {**a, **b}: the keys of both, b's value where both have the key
DictMerge(a, b) ==
    [key \in DOMAIN a \cup DOMAIN b |-> IF key \in DOMAIN b THEN b[key] ELSE a[key]]

get_state(ps, w, ms, ls, over) ==
    DictMerge(get_player_state(ps), get_environment_state(ps, w, ms, ls, over))

-----------------------------------------------------------------------------
(* GameState.update and GameState._check_collisions *)

\* the part of the GameState that update writes
GS == [players |-> players, lasers |-> lasers, mines |-> mines,
       is_flashing |-> is_flashing, flash_start_time |-> flash_start_time]

\* the index of the first mine of ms in the cell of position, 0 for none
FirstMine(position, ms) ==
    LET hit == {k \in 1..Len(ms) : check_mine_collision(position, ms[k])}
    IN  IF hit = {} THEN 0 ELSE Min(hit)

LaserIter_IgnoreMines(laser, ms, w, dt) ==
    IF ~laser.active
    THEN [keep |-> FALSE, laser |-> laser, mines |-> ms]
    ELSE LET moved == MovedLaser(laser, dt)
             dead == [moved EXCEPT !.active = FALSE]
         IN  IF ~update_laser_position(laser, dt)
             THEN [keep |-> TRUE, laser |-> dead, mines |-> ms]
             ELSE IF check_wall_collision(moved.position, w)
             THEN [keep |-> TRUE, laser |-> dead, mines |-> ms]
             ELSE [keep |-> TRUE, laser |-> moved, mines |-> ms]

LaserIter_FirstOfList(laser, ms, w, dt) ==
    IF ~laser.active
    THEN [keep |-> FALSE, laser |-> laser, mines |-> ms]
    ELSE LET moved == MovedLaser(laser, dt)
             dead == [moved EXCEPT !.active = FALSE]
         IN  IF ~update_laser_position(laser, dt)
             THEN [keep |-> TRUE, laser |-> dead, mines |-> ms]
             ELSE IF check_wall_collision(moved.position, w)
             THEN [keep |-> TRUE, laser |-> dead, mines |-> ms]
             ELSE IF FirstMine(moved.position, ms) # 0
             THEN [keep |-> TRUE, laser |-> dead, mines |-> RemoveAt(ms, 1)]
             ELSE [keep |-> TRUE, laser |-> moved, mines |-> ms]

LaserIter_KeepInactive(laser, ms, w, dt) ==
    IF ~laser.active
    THEN [keep |-> TRUE, laser |-> laser, mines |-> ms]
    ELSE LET moved == MovedLaser(laser, dt)
             dead == [moved EXCEPT !.active = FALSE]
         IN  IF ~update_laser_position(laser, dt)
             THEN [keep |-> TRUE, laser |-> dead, mines |-> ms]
             ELSE IF check_wall_collision(moved.position, w)
             THEN [keep |-> TRUE, laser |-> dead, mines |-> ms]
             ELSE IF FirstMine(moved.position, ms) # 0
             THEN [keep |-> TRUE, laser |-> dead,
                   mines |-> RemoveAt(ms, FirstMine(moved.position, ms))]
             ELSE [keep |-> TRUE, laser |-> moved, mines |-> ms]

\* one iteration of the laser loop on a laser of the snapshot: whether it
\* stays in the list, what it has become, and the mine list afterwards
LaserIter(laser, ms, w, dt) ==
    IF ~laser.active
    THEN [keep |-> FALSE, laser |-> laser, mines |-> ms]
    ELSE LET moved == MovedLaser(laser, dt)
             dead == [moved EXCEPT !.active = FALSE]
         IN  IF ~update_laser_position(laser, dt)
             THEN [keep |-> TRUE, laser |-> dead, mines |-> ms]
             ELSE IF check_wall_collision(moved.position, w)
             THEN [keep |-> TRUE, laser |-> dead, mines |-> ms]
             ELSE IF FirstMine(moved.position, ms) # 0
             THEN [keep |-> TRUE, laser |-> dead,
                   mines |-> RemoveAt(ms, FirstMine(moved.position, ms))]
             ELSE [keep |-> TRUE, laser |-> moved, mines |-> ms]

RECURSIVE LaserLoop(_, _, _, _, _, _)
LaserLoop(snap, i, out, ms, w, dt) ==
    IF i > Len(snap)
    THEN [lasers |-> out, mines |-> ms]
    ELSE LET r == LaserIter(snap[i], ms, w, dt)
         IN  LaserLoop(snap, i + 1, IF r.keep THEN Append(out, r.laser) ELSE out,
                       r.mines, w, dt)

ExpireShield(player, t) ==
    IF player.shield_active /\ t - player.shield_start_time > ShieldUnits
    THEN [player EXCEPT !.shield_active = FALSE]
    ELSE player

ExpireFlash(flashing, start, t) ==
    IF flashing /\ t - start > FlashUnits THEN FALSE ELSE flashing

Damage_NoDeactivate(player, n) == [player EXCEPT !.lifes = @ - n]

\* lifes -= n; if lifes <= 0: active = False
Damage(player, n) ==
    [player EXCEPT !.lifes = @ - n,
                   !.active = IF player.lifes - n <= 0 THEN FALSE ELSE @]

CollideMines_IgnoreShield(s, k, t) ==
    LET player == s.players[k]
        hit == FirstMine(player.position, s.mines)
    IN  IF hit = 0 THEN s
        ELSE [s EXCEPT !.players[k] = Damage(player, MINE_DAMAGE),
                       !.is_flashing = TRUE,
                       !.flash_start_time = t,
                       !.mines = RemoveAt(s.mines, hit)]

CollideMines_KeepMine(s, k, t) ==
    LET player == s.players[k]
        hit == FirstMine(player.position, s.mines)
    IN  IF hit = 0 THEN s
        ELSE IF ~player.shield_active
        THEN [s EXCEPT !.players[k] = Damage(player, MINE_DAMAGE),
                       !.is_flashing = TRUE,
                       !.flash_start_time = t]
        ELSE s

CollideMines_FlashOnShield(s, k, t) ==
    LET player == s.players[k]
        hit == FirstMine(player.position, s.mines)
    IN  IF hit = 0 THEN s
        ELSE IF ~player.shield_active
        THEN [s EXCEPT !.players[k] = Damage(player, MINE_DAMAGE),
                       !.is_flashing = TRUE,
                       !.flash_start_time = t,
                       !.mines = RemoveAt(s.mines, hit)]
        ELSE [s EXCEPT !.is_flashing = TRUE,
                       !.flash_start_time = t,
                       !.mines = RemoveAt(s.mines, hit)]

\* the mine loop of _check_collisions for the player at index k
CollideMines(s, k, t) ==
    LET player == s.players[k]
        hit == FirstMine(player.position, s.mines)
    IN  IF hit = 0 THEN s
        ELSE IF ~player.shield_active
        THEN [s EXCEPT !.players[k] = Damage(player, MINE_DAMAGE),
                       !.is_flashing = TRUE,
                       !.flash_start_time = t,
                       !.mines = RemoveAt(s.mines, hit)]
        ELSE [s EXCEPT !.mines = RemoveAt(s.mines, hit)]

FirstLaser_AnyOwner(player, ls) ==
    LET hit == {j \in 1..Len(ls) :
                   /\ ls[j].active
                   /\ check_laser_collision(ls[j].position, player.position)}
    IN  IF hit = {} THEN 0 ELSE Min(hit)

\* the index of the first laser of ls that hits player, 0 for none
FirstLaser(player, ls) ==
    LET hit == {j \in 1..Len(ls) :
                   /\ ls[j].active
                   /\ ls[j].owner_id # player.id
                   /\ check_laser_collision(ls[j].position, player.position)}
    IN  IF hit = {} THEN 0 ELSE Min(hit)

CollideLasers_NoBreak(s, k, t) ==
    LET player == s.players[k]
        hit == {j \in 1..Len(s.lasers) :
                   /\ s.lasers[j].active
                   /\ s.lasers[j].owner_id # player.id
                   /\ check_laser_collision(s.lasers[j].position, player.position)}
        off == [j \in 1..Len(s.lasers) |->
                   IF j \in hit THEN [s.lasers[j] EXCEPT !.active = FALSE]
                   ELSE s.lasers[j]]
    IN  IF hit = {} THEN s
        ELSE IF ~player.shield_active
        THEN [s EXCEPT !.players[k] = Damage(player, LASER_DAMAGE * Cardinality(hit)),
                       !.is_flashing = TRUE,
                       !.flash_start_time = t,
                       !.lasers = off]
        ELSE [s EXCEPT !.lasers = off]

\* the laser loop of _check_collisions for the player at index k
CollideLasers(s, k, t) ==
    LET player == s.players[k]
        hit == FirstLaser(player, s.lasers)
    IN  IF hit = 0 THEN s
        ELSE IF ~player.shield_active
        THEN [s EXCEPT !.players[k] = Damage(player, LASER_DAMAGE),
                       !.is_flashing = TRUE,
                       !.flash_start_time = t,
                       !.lasers[hit].active = FALSE]
        ELSE [s EXCEPT !.lasers[hit].active = FALSE]

\* one iteration of the player loop of _check_collisions
CollidePlayer(s, k, t) ==
    IF ~s.players[k].active THEN s
    ELSE CollideLasers(CollideMines(s, k, t), k, t)

\* the iterations from..to of the player loop of _check_collisions
RECURSIVE CollideRange(_, _, _, _)
CollideRange(s, from, to, t) ==
    IF from > to THEN s
    ELSE CollideRange(CollidePlayer(s, from, t), from + 1, to, t)

check_collisions(s, t) == CollideRange(s, 1, Len(s.players), t)

\* update(dt) up to the call of _check_collisions (lines 98-128); every
\* time.time() it reads is t
BeforeCollisions(s, w, dt, t) ==
    LET ll == LaserLoop(s.lasers, 1, <<>>, s.mines, w, dt)
    IN  [s EXCEPT
           !.lasers = ll.lasers,
           !.mines = ll.mines,
           !.players = [k \in 1..Len(s.players) |-> ExpireShield(s.players[k], t)],
           !.is_flashing = ExpireFlash(s.is_flashing, s.flash_start_time, t)]

update_CollideFirst(s, w, dt, t) == BeforeCollisions(check_collisions(s, t), w, dt, t)

\* update(dt) when game_over is false
update(s, w, dt, t) == check_collisions(BeforeCollisions(s, w, dt, t), t)

SetGS(s) ==
    /\ players' = s.players
    /\ lasers' = s.lasers
    /\ mines' = s.mines
    /\ is_flashing' = s.is_flashing
    /\ flash_start_time' = s.flash_start_time

(* Game.run: one turn of the game loop, update running to its end at once *)
\* update with an end of the game: the flag set once ships are registered and
\* none of them is active any more
Tick_GameOver(dt) ==
    /\ pc = "idle"
    /\ steps < MaxSteps
    /\ now' = now + dt
    /\ steps' = steps + 1
    /\ SetGS(IF game_over THEN GS ELSE update(GS, walls, dt, now + dt))
    /\ game_over' = (players' # <<>> /\ \A k \in 1..Len(players') : ~players'[k].active)
    /\ last' = [op |-> "update", id |-> None]
    /\ UNCHANGED <<walls, pc, it>>

Tick(dt) ==
    /\ pc = "idle"
    /\ steps < MaxSteps
    /\ now' = now + dt
    /\ steps' = steps + 1
    /\ SetGS(IF game_over THEN GS ELSE update(GS, walls, dt, now + dt))
    /\ last' = [op |-> "update", id |-> None]
    /\ UNCHANGED <<walls, game_over, pc, it>>

-----------------------------------------------------------------------------
RegistryCommand ==
    \/ \E id \in Ids, name \in NameInputs : add_player(id, name)
    \/ \E id \in Ids : remove_player(id)

ShipCommand ==
    \/ \E id \in Ids : activate_shield(id)
    \/ \E id \in Ids : move_player(id)
    \/ \E id \in Ids : fire_laser(id)
    \/ \E id \in Ids, direction \in Directions : rotate_player(id, direction)

Command == RegistryCommand \/ ShipCommand

Next ==
    \/ pc = "idle" /\ Command
    \/ \E dt \in DtChoices : Tick(dt)

Spec == Init /\ [][Next]_vars

\* The same game on each wall layout: the compiled-in one, and the obstacle
\* layout alone, without the border.
WallConfigs == {WALLS, OBSTACLE_WALLS2}

InitArena ==
    /\ walls \in WallConfigs
    /\ players = <<>>
    /\ lasers = <<>>
    /\ mines = MINES
    /\ is_flashing = FALSE
    /\ flash_start_time = 0
    /\ game_over = FALSE
    /\ now = 0
    /\ last = [op |-> "init", id |-> None]
    /\ steps = 0
    /\ pc = "idle"
    /\ it = Idle

SpecArena == InitArena /\ [][Next]_vars

\* Registration in the open arena: the border walls alone, where all four
\* spawn positions are free cells, and enough players to fill them.
\* The game in the open arena, inside the border walls alone, with two more
\* mines away from the centre column.
MINES_ARENA == MINES \o <<Cell(1, 1), Cell(2, 2)>>

InitView ==
    /\ players = <<>>
    /\ lasers = <<>>
    /\ mines = MINES_ARENA
    /\ walls = BORDER_WALLS
    /\ is_flashing = FALSE
    /\ flash_start_time = 0
    /\ game_over = FALSE
    /\ now = 0
    /\ last = [op |-> "init", id |-> None]
    /\ steps = 0
    /\ pc = "idle"
    /\ it = Idle

SpecView == InitView /\ [][Next]_vars

(* The game loop that never stops.  Game.run calls update once per frame for
   as long as the program runs, with the time since the last frame as dt; the
   commands are counted in steps as before, the ticks are not.  update reads
   the clock only in the differences time.time() - shield_start_time of a
   ship whose shield is active and time.time() - flash_start_time while the
   flash is on, so the clock is kept relative here: now stays, and what update
   leaves of those two time stamps moves back by dt. *)
DtLive == DtChoices \ {0}

Rebase(s, dt) ==
    [s EXCEPT
        !.players = [k \in 1..Len(s.players) |->
                        IF s.players[k].shield_active
                        THEN [s.players[k] EXCEPT !.shield_start_time = @ - dt]
                        ELSE s.players[k]],
        !.flash_start_time = IF s.is_flashing THEN @ - dt ELSE @]

\* Game.run, lines 46-51: dt is taken from the clock and update called ...
TickLive(dt) ==
    /\ pc = "idle"
    /\ SetGS(Rebase(update(GS, walls, dt, now + dt), dt))
    /\ last' = [op |-> "update", id |-> None]
    /\ pc' = "render"
    /\ UNCHANGED <<walls, game_over, now, steps, it>>

\* ... and lines 52-53: the frame is rendered and the loop waits for the next
Render ==
    /\ pc = "render"
    /\ pc' = "idle"
    /\ UNCHANGED <<players, lasers, mines, walls, is_flashing, flash_start_time,
                   game_over, now, last, steps, it>>

\* The commands of a short game: LiveSteps of them, then firing has stopped.
LiveSteps == MaxSteps - 2

NextLive ==
    \/ \E id \in Ids, name \in NameInputs : steps < LiveSteps /\ add_player(id, name)
    \/ \E id \in Ids : steps < LiveSteps /\ move_player(id)
    \/ \E id \in Ids, direction \in Directions :
          steps < LiveSteps /\ rotate_player(id, direction)
    \/ \E id \in Ids : steps < LiveSteps /\ fire_laser(id)
    \/ \E dt \in DtLive : TickLive(dt)
    \/ Render

\* a turn of the game loop, seen in its position alone
LoopTurn ==
    \/ pc = "idle" /\ pc' = "render"
    \/ pc = "render" /\ pc' = "idle"

\* the game loop goes on turning as long as the program runs
SpecLive == Init /\ [][NextLive]_vars /\ WF_pc(LoopTurn)

SpawnIds == Ids \cup {"player3", "player4", "player5"}

\* A game in the open arena that has left an eliminated ship on the centre:
\* player1 registers, steps onto a mine and lives through an update, turns
\* round and steps back; "players" registers (right of the centre), turns left
\* and fires twice, each laser carried into the centre by one update.
SpawnPrefix ==
    LET w  == BORDER_WALLS
        s0 == [players |-> <<>>, lasers |-> <<>>, mines |-> MINES,
               is_flashing |-> FALSE, flash_start_time |-> 0]
        p1 == add_player_call(s0.players, w, "player1", None).players
        p2 == move_player_call(p1, w, "player1").players
        s3 == update([s0 EXCEPT !.players = p2], w, 0, 0)
        p4 == rotate_player_call(s3.players, "player1", "right").players
        p5 == rotate_player_call(p4, "player1", "right").players
        p6 == move_player_call(p5, w, "player1").players
        p7 == add_player_call(p6, w, "players", None).players
        p8 == rotate_player_call(p7, "players", "left").players
        l9 == fire_laser_call(p8, s3.lasers, "players").lasers
        s10 == update([s3 EXCEPT !.players = p8, !.lasers = l9], w, 3 * SUB, 0)
        l11 == fire_laser_call(s10.players, s10.lasers, "players").lasers
    IN  update([s10 EXCEPT !.lasers = l11], w, 3 * SUB, 0)

InitSpawn ==
    /\ walls = BORDER_WALLS
    /\ \E s \in {[players |-> <<>>, lasers |-> <<>>, mines |-> MINES,
                   is_flashing |-> FALSE, flash_start_time |-> 0], SpawnPrefix} :
          /\ players = s.players
          /\ lasers = s.lasers
          /\ mines = s.mines
          /\ is_flashing = s.is_flashing
          /\ flash_start_time = s.flash_start_time
    /\ game_over = FALSE
    /\ now = 0
    /\ last = [op |-> "init", id |-> None]
    /\ steps = Len(players)
    /\ pc = "idle"
    /\ it = Idle

\* registrations and manoeuvres, one step short of the budget of the full game
SpawnBudget == steps < MaxSteps - 1

NextSpawn ==
    \/ \E id \in SpawnIds, name \in NameInputs : SpawnBudget /\ add_player(id, name)
    \/ \E id \in SpawnIds : SpawnBudget /\ remove_player(id)
    \/ \E id \in SpawnIds : SpawnBudget /\ move_player(id)
    \/ \E id \in SpawnIds, direction \in Directions :
          SpawnBudget /\ rotate_player(id, direction)

SpecSpawn == InitSpawn /\ [][NextSpawn]_vars

\* The game of Spec after a third player has come and gone: "player3" has
\* registered, fired three times from the centre and unregistered, and its
\* lasers, which no ship owns any more, are still where they were fired.
CrowdPrefix ==
    LET p1 == add_player_call(<<>>, WALLS, "player3", None).players
        l2 == fire_laser_call(p1, <<>>, "player3").lasers
        l3 == fire_laser_call(p1, l2, "player3").lasers
        l4 == fire_laser_call(p1, l3, "player3").lasers
        p5 == remove_player_call(p1, "player3").players
    IN  [players |-> p5, lasers |-> l4, mines |-> MINES,
         is_flashing |-> FALSE, flash_start_time |-> 0]

InitCrowd ==
    /\ players = CrowdPrefix.players
    /\ lasers = CrowdPrefix.lasers
    /\ mines = CrowdPrefix.mines
    /\ walls = WALLS
    /\ is_flashing = CrowdPrefix.is_flashing
    /\ flash_start_time = CrowdPrefix.flash_start_time
    /\ game_over = FALSE
    /\ now = 0
    /\ last = [op |-> "remove_player", id |-> "player3"]
    /\ steps = MaxSteps - 5
    /\ pc = "idle"
    /\ it = Idle

SpecCrowd == InitCrowd /\ [][Next]_vars

-----------------------------------------------------------------------------
(* The two threads of main.py: Game.run calls update in the main thread while *)
(* the API thread (run_api) calls the command methods.  GameState holds no    *)
(* lock, so the interpreter may switch threads between any two iterations of  *)
(* update's loops.                                                            *)

\* Game.run computes dt and calls update: the snapshot self.lasers[:] is taken
UpdateBegin(dt) ==
    /\ pc = "idle"
    /\ steps < MaxSteps
    /\ now' = now + dt
    /\ steps' = steps + 1
    /\ IF game_over
       THEN /\ last' = [op |-> "update", id |-> None]
            /\ UNCHANGED <<pc, it>>
       ELSE /\ pc' = "lasers"
            /\ it' = [i |-> 1, n |-> Len(lasers), removed |-> 0, dt |-> dt]
            /\ UNCHANGED last
    /\ UNCHANGED <<players, lasers, mines, walls, is_flashing, flash_start_time,
                   game_over>>

\* one iteration of  for laser in self.lasers[:]  (lines 99-119): commands only
\* append to self.lasers, so the i-th laser of the snapshot is now at i - removed
LaserLoopStep ==
    /\ pc = "lasers"
    /\ IF it.i > it.n
       THEN /\ pc' = "shields"
            /\ it' = [it EXCEPT !.i = 1, !.n = Len(players)]
            /\ UNCHANGED <<lasers, mines>>
       ELSE LET at == it.i - it.removed
                r == LaserIter(lasers[at], mines, walls, it.dt)
            IN  /\ lasers' = IF r.keep THEN [lasers EXCEPT ![at] = r.laser]
                                       ELSE RemoveAt(lasers, at)
                /\ mines' = r.mines
                /\ it' = [it EXCEPT !.i = @ + 1,
                                    !.removed = IF r.keep THEN @ ELSE @ + 1]
                /\ UNCHANGED pc
    /\ UNCHANGED <<players, walls, is_flashing, flash_start_time, game_over, now,
                   last, steps>>

\* an iterator over self.players.values() raises RuntimeError when the dict has
\* changed size since the loop began; Game.run catches it and leaves its loop
DictChangedSize == Len(players) # it.n

\* one iteration of  for player in self.players.values()  (lines 122-124)
ShieldLoopStep ==
    /\ pc = "shields"
    /\ IF DictChangedSize
       THEN pc' = "crashed" /\ it' = Idle /\ UNCHANGED players
       ELSE IF it.i > it.n
       THEN pc' = "flash" /\ UNCHANGED <<it, players>>
       ELSE /\ players' = [players EXCEPT ![it.i] = ExpireShield(@, now)]
            /\ it' = [it EXCEPT !.i = @ + 1]
            /\ UNCHANGED pc
    /\ UNCHANGED <<lasers, mines, walls, is_flashing, flash_start_time, game_over,
                   now, last, steps>>

\* lines 127-128, and the call of _check_collisions
FlashStep ==
    /\ pc = "flash"
    /\ is_flashing' = ExpireFlash(is_flashing, flash_start_time, now)
    /\ pc' = "collide"
    /\ it' = [it EXCEPT !.i = 1, !.n = Len(players)]
    /\ UNCHANGED <<players, lasers, mines, walls, flash_start_time, game_over, now,
                   last, steps>>

\* the player loop of _check_collisions: the next player is fetched (update
\* returns when there is none), an inactive one is skipped, and the mine loop
\* of an active one (lines 140-149) runs
CollideLoopStep ==
    /\ pc = "collide"
    /\ IF DictChangedSize
       THEN /\ pc' = "crashed" /\ it' = Idle
            /\ UNCHANGED <<players, lasers, mines, is_flashing, flash_start_time, last>>
       ELSE IF it.i > it.n
       THEN /\ pc' = "idle" /\ it' = Idle
            /\ last' = [op |-> "update", id |-> None]
            /\ UNCHANGED <<players, lasers, mines, is_flashing, flash_start_time>>
       ELSE IF ~players[it.i].active
       THEN /\ it' = [it EXCEPT !.i = @ + 1]
            /\ UNCHANGED <<players, lasers, mines, is_flashing, flash_start_time, pc, last>>
       ELSE /\ SetGS(CollideMines(GS, it.i, now))
            /\ pc' = "collide_lasers"
            /\ UNCHANGED <<it, last>>
    /\ UNCHANGED <<walls, game_over, now, steps>>

\* the laser loop of the same player (lines 152-163)
CollideLasersStep ==
    /\ pc = "collide_lasers"
    /\ SetGS(CollideLasers(GS, it.i, now))
    /\ pc' = "collide"
    /\ it' = [it EXCEPT !.i = @ + 1]
    /\ UNCHANGED <<walls, game_over, now, last, steps>>

UpdateStep ==
    \/ LaserLoopStep
    \/ ShieldLoopStep
    \/ FlashStep
    \/ CollideLoopStep
    \/ CollideLasersStep

\* The API thread runs whole commands between any two steps of update.  Between
\* the two loops of one player's turn the registry is left as it is here: the
\* loop holds the player object, whatever the registry then says.
NextConc ==
    \/ pc # "collide_lasers" /\ RegistryCommand
    \/ ShipCommand
    \/ \E dt \in DtChoices : UpdateBegin(dt)
    \/ UpdateStep

SpecConc == Init /\ [][NextConc]_vars

(* The two threads late in a game.  player1 has registered, stepped onto the
   mine of Cell(center_x, 3), lived through an update, and stepped onto the mine of
   Cell(center_x, 2); then "players" has registered and stepped twice, into the same
   cell.  Every call is the model's own, applied from Init. *)
RacePrefix ==
    LET p1 == add_player_call(<<>>, WALLS, "player1", None).players
        p2 == move_player_call(p1, WALLS, "player1").players
        s3 == update([players |-> p2, lasers |-> <<>>, mines |-> MINES,
                      is_flashing |-> FALSE, flash_start_time |-> 0], WALLS, 0, 0)
        p4 == move_player_call(s3.players, WALLS, "player1").players
        p5 == add_player_call(p4, WALLS, "players", None).players
        p6 == move_player_call(p5, WALLS, "players").players
        p7 == move_player_call(p6, WALLS, "players").players
    IN  [s3 EXCEPT !.players = p7]

InitRace ==
    /\ players = RacePrefix.players
    /\ lasers = RacePrefix.lasers
    /\ mines = RacePrefix.mines
    /\ walls = WALLS
    /\ is_flashing = RacePrefix.is_flashing
    /\ flash_start_time = RacePrefix.flash_start_time
    /\ game_over = FALSE
    /\ now = 0
    /\ last = [op |-> "move_player", id |-> "players"]
    /\ steps = MaxSteps - 3
    /\ pc = "idle"
    /\ it = Idle

SpecRace == InitRace /\ [][NextConc]_vars

(* activate_shield line by line.  It writes shield_active (line 171) three
   statements before shield_start_time (line 174), and the game loop may run
   between them.  last.op = "activate_shield:173" says that the API thread is
   inside activate_shield(last.id) with lines 171-173 done; it holds the
   player object it fetched at line 167, and no other command runs until the
   call has returned. *)
ShieldPending == last.op = "activate_shield:173"

\* lines 167-173
ShieldBegin(player_id) ==
    /\ ~ShieldPending
    /\ steps < MaxSteps
    /\ player_id \in Registered(players)
    /\ ~ShieldRefused(Get(players, player_id))
    /\ players' = [players EXCEPT ![IndexOf(players, player_id)] =
                      [@ EXCEPT !.shield_active = TRUE, !.shield_available = FALSE,
                                !.shield_used = TRUE]]
    /\ last' = [op |-> "activate_shield:173", id |-> player_id]
    /\ UNCHANGED <<lasers, mines, walls, is_flashing, flash_start_time, game_over,
                   now, steps, pc, it>>

\* line 174 and the return
ShieldEnd ==
    /\ ShieldPending
    /\ players' = [players EXCEPT ![IndexOf(players, last.id)] =
                      [@ EXCEPT !.shield_start_time = now]]
    /\ last' = [op |-> "activate_shield", id |-> last.id]
    /\ steps' = steps + 1
    /\ UNCHANGED <<lasers, mines, walls, is_flashing, flash_start_time, game_over,
                   now, pc, it>>

\* The API thread registers and moves ships and raises shields, statement by
\* statement; the game loop runs update in its steps.
NextShield ==
    \/ \E id \in Ids, name \in NameInputs :
          ~ShieldPending /\ pc # "collide_lasers" /\ add_player(id, name)
    \/ \E id \in Ids : ~ShieldPending /\ move_player(id)
    \/ \E id \in Ids : ShieldBegin(id)
    \/ ShieldEnd
    \/ \E dt \in DtChoices : ~ShieldPending /\ UpdateBegin(dt)
    \/ UpdateStep

\* time.time() of a running program is far beyond SHIELD_DURATION
InitShield ==
    /\ players = <<>>
    /\ lasers = <<>>
    /\ mines = MINES
    /\ walls = WALLS
    /\ is_flashing = FALSE
    /\ flash_start_time = 0
    /\ game_over = FALSE
    /\ now = ShieldUnits + 1
    /\ last = [op |-> "init", id |-> None]
    /\ steps = 0
    /\ pc = "idle"
    /\ it = Idle

SpecShield == InitShield /\ [][NextShield]_vars

-----------------------------------------------------------------------------
(* What the claims are stated with *)

\* a step in which the call op(id) returned True
Did(op, id) == steps' = steps + 1 /\ last' = [op |-> op, id |-> id]

\* the unit vector of a rotation: 0 up, 90 right, 180 down, 270 left
UnitVector(r) ==
    CASE r = 0 -> <<0, -1>> [] r = 90 -> <<1, 0>>
      [] r = 180 -> <<0, 1>> [] r = 270 -> <<-1, 0>>

\* the cell in front of a ship
TargetCell(p) ==
    <<p.position[1] + UnitVector(p.rotation)[1] * SUB,
      p.position[2] + UnitVector(p.rotation)[2] * SUB>>

\* a cell of [0, GRID_WIDTH) x [0, GRID_HEIGHT)
InsideGrid(c) ==
    /\ c[1] >= 0 /\ c[1] < GRID_WIDTH * SUB
    /\ c[2] >= 0 /\ c[2] < GRID_HEIGHT * SUB

SameCell(a, b) == GridCell(a) = GridCell(b)

\* the mines of ms in the cell of position
MinesAt(ms, position) == {k \in 1..Len(ms) : SameCell(ms[k], position)}

\* the active lasers of ls in the cell of ship p that another ship owns
ForeignLasersAt(ls, p) ==
    {j \in 1..Len(ls) :
        ls[j].active /\ ls[j].owner_id # p.id /\ SameCell(ls[j].position, p.position)}

\* the active lasers of ls in the cell of ship p that p owns
OwnLasersAt(ls, p) ==
    {j \in 1..Len(ls) :
        ls[j].active /\ ls[j].owner_id = p.id /\ SameCell(ls[j].position, p.position)}

\* the collision pass of the update(dt) called in this state, as it stands when
\* the turn of the player at index k begins
AtTurn(k, dt) ==
    CollideRange(BeforeCollisions(GS, walls, dt, now + dt), 1, k - 1, now + dt)

\* and when that turn is over
AfterTurn(k, dt) == CollidePlayer(AtTurn(k, dt), k, now + dt)

Turns == 1..Len(players)

-----------------------------------------------------------------------------
\* C1: for every registered active ship and every wall layout, move_player(id)
\* returns success and puts the ship on the cell in front of it exactly when
\* that cell is inside the grid and no wall cell; otherwise it returns failure
\* and nothing has changed.
C1_MoveLegality ==
    \A id \in Registered(players) :
        LET p == Get(players, id)
            r == move_player_call(players, walls, id)
            ok == InsideGrid(TargetCell(p)) /\ TargetCell(p) \notin walls
        IN  p.active =>
              /\ r.ret = ok
              /\ r.players = IF ok
                             THEN [players EXCEPT ![IndexOf(players, id)].position =
                                                      TargetCell(p)]
                             ELSE players

\* a ship that has just moved now faces the edge of the grid, with no wall
\* there, and its next move is refused
C1_Witness ==
    \E id \in Registered(players) :
        /\ last = [op |-> "move_player", id |-> id]
        /\ Get(players, id).active
        /\ ~InsideGrid(TargetCell(Get(players, id)))
        /\ TargetCell(Get(players, id)) \notin walls
        /\ ~move_player_call(players, walls, id).ret

\* C2: in the collision pass, an active ship whose shield is active when its
\* turn comes loses no life to the mine or to the foreign laser in its cell,
\* while one mine of that cell leaves the mine list and one such laser is
\* deactivated.
C2_ShieldAbsorbs ==
    \A dt \in DtChoices : \A k \in Turns :
        LET b == AtTurn(k, dt)
            a == AfterTurn(k, dt)
            p == b.players[k]
        IN  (p.active /\ p.shield_active) =>
              /\ a.players[k].lifes = p.lifes
              /\ a.players[k].active
              /\ MinesAt(b.mines, p.position) # {} =>
                    /\ Len(a.mines) = Len(b.mines) - 1
                    /\ Cardinality(MinesAt(a.mines, p.position)) =
                           Cardinality(MinesAt(b.mines, p.position)) - 1
              /\ ForeignLasersAt(b.lasers, p) # {} =>
                    /\ Len(a.lasers) = Len(b.lasers)
                    /\ Cardinality(ForeignLasersAt(a.lasers, p)) =
                           Cardinality(ForeignLasersAt(b.lasers, p)) - 1

\* after a tick a shielded ship has all its lives, every mine is still there,
\* and a foreign laser lies deactivated in the ship's cell
C2_Witness ==
    /\ last.op = "update"
    /\ mines = MINES
    /\ \E k \in 1..Len(players), j \in 1..Len(lasers) :
          /\ players[k].active /\ players[k].shield_active
          /\ players[k].lifes = INITIAL_LIFES
          /\ ~lasers[j].active
          /\ lasers[j].owner_id # players[k].id
          /\ SameCell(lasers[j].position, players[k].position)

\* C3: in the collision pass a ship deactivates none of its own lasers, and with
\* no mine and no foreign laser in its cell it loses no life, whatever lasers
\* of its own are there.
C3_SelfImmunity ==
    \A dt \in DtChoices : \A k \in Turns :
        LET b == AtTurn(k, dt)
            a == AfterTurn(k, dt)
            p == b.players[k]
        IN  /\ \A j \in OwnLasersAt(b.lasers, p) : a.lasers[j].active
            /\ (MinesAt(b.mines, p.position) = {} /\ ForeignLasersAt(b.lasers, p) = {})
                  => a.players[k] = p

\* after a tick a ship with all its lives shares its cell with an active laser
\* of its own
C3_Witness ==
    /\ last.op = "update"
    /\ \E k \in 1..Len(players) :
          /\ players[k].active
          /\ players[k].lifes = INITIAL_LIFES
          /\ OwnLasersAt(lasers, players[k]) # {}

\* C4: while a ship is registered, activate_shield(id) returns success at most
\* once: the successful call finds shield_used false and sets it, shield_used
\* then stays true, and with shield_used true every call returns failure,
\* expired shield or not.
C4_ShieldOnce ==
    [][\A id \in Ids :
          /\ Did("activate_shield", id) =>
                /\ ~Get(players, id).shield_used
                /\ Get(players', id).shield_used
          /\ (id \in Registered(players) /\ Get(players, id).shield_used) =>
                /\ ~activate_shield_call(players, id, now).ret
                /\ ~Did("activate_shield", id)
                /\ id \in Registered(players') => Get(players', id).shield_used
      ]_vars

\* a ship whose shield was used and has expired
C4_Witness ==
    \E k \in 1..Len(players) :
        /\ players[k].shield_used
        /\ ~players[k].shield_active
        /\ now - players[k].shield_start_time > ShieldUnits
        /\ ~activate_shield_call(players, players[k].id, now).ret

\* C5: in every state between calls, a registered ship is inactive exactly when
\* its lives are <= 0.
C5_ActiveIffLives ==
    \A k \in 1..Len(players) : ~players[k].active <=> players[k].lifes <= 0

\* a tick has just eliminated a ship
C5_Witness ==
    /\ last.op = "update"
    /\ \E k \in 1..Len(players) : ~players[k].active /\ players[k].lifes <= 0

\* C6: for a registered ship with active false, move_player, rotate_player
\* (left or right) and fire_laser return failure and change nothing: position,
\* rotation and lives stay and no laser is added.
C6_InactiveRefused ==
    \A id \in Registered(players) :
        ~Get(players, id).active =>
          /\ move_player_call(players, walls, id) = [ret |-> FALSE, players |-> players]
          /\ \A d \in {"left", "right"} :
                rotate_player_call(players, id, d) = [ret |-> FALSE, players |-> players]
          /\ fire_laser_call(players, lasers, id) = [ret |-> FALSE, lasers |-> lasers]

\* an eliminated ship in the registry, next to an active one
C6_Witness ==
    \E id \in Registered(players), other \in Registered(players) :
        /\ ~Get(players, id).active
        /\ Get(players, other).active
        /\ ~fire_laser_call(players, lasers, id).ret

\* the lasers of ls that are active, in their order
ActiveLasers(ls) == SelectSeq(ls, LAMBDA l : l.active)

\* the collision pass of update(dt) when the mine loop of turn k has run
AfterMines(k, dt) ==
    LET b == AtTurn(k, dt)
    IN  IF b.players[k].active THEN CollideMines(b, k, now + dt) ELSE b

\* C7: once a registered ship's active flag is false, every step that leaves it
\* in the registry (every step but its remove_player) leaves it inactive with
\* the lives it has; no step of an update, the rest of the eliminating update
\* included, takes a life from it again.
C7_EliminationTerminal ==
    [][\A id \in Registered(players) :
          (~Get(players, id).active /\ id \in Registered(players')) =>
             /\ ~Get(players', id).active
             /\ Get(players', id).lifes = Get(players, id).lifes]_vars

\* C8: between the start and the end of an update call no command takes
\* effect: a step that is not a step of the running update changes neither the
\* registry, nor the laser list, nor the mine list.
C8_MutualExclusion ==
    [][(pc # "idle" /\ pc' = pc /\ it' = it) =>
          UNCHANGED <<players, lasers, mines>>]_vars

\* C9 as claimed: once update has returned, no laser with active false is in
\* the laser list.
C9_NoInactiveLaserAfterUpdate ==
    last.op = "update" => \A j \in 1..Len(lasers) : lasers[j].active

\* C9: a laser that an update deactivates stays in the list, inactive, when
\* that update returns, and the next update drops it before doing anything
\* else: the list an update returns has one laser, active or just deactivated,
\* for each laser that was active when it began, in their order, and the
\* inactive lasers it found have no part in what it returns.
C9_PrunedByNextUpdate ==
    \A dt \in DtChoices :
        LET a == update(GS, walls, dt, now + dt)
            act == ActiveLasers(lasers)
        IN  /\ Len(a.lasers) = Len(act)
            /\ \A j \in 1..Len(act) :
                  /\ a.lasers[j].owner_id = act[j].owner_id
                  /\ a.lasers[j].direction = act[j].direction
            /\ a = update([GS EXCEPT !.lasers = act], walls, dt, now + dt)

\* an update has returned with a laser it deactivated still in the list, and
\* the update that follows returns without it
C9_Witness ==
    /\ last.op = "update"
    /\ \E j \in 1..Len(lasers) : ~lasers[j].active
    /\ \E dt \in DtChoices :
          Len(update(GS, walls, dt, now + dt).lasers) < Len(lasers)

FreeCandidates(ps, w) ==
    {c \in 1..Len(spawn_positions) :
        /\ InsideGrid(spawn_positions[c])
        /\ GridCell(spawn_positions[c]) \notin w
        /\ \A k \in 1..Len(ps) : ~SameCell(ps[k].position, spawn_positions[c])}

\* the ship a successful add_player has just put in the registry r
Newcomer(r) == r[Len(r)]

\* C11: in every reachable registry, an add_player that succeeds puts the new
\* ship on a cell where no other registered ship, active or eliminated, stands.
C11_SpawnOnFreeCell ==
    \A id \in SpawnIds, name \in NameInputs :
        LET r == add_player_call(players, walls, id, name)
        IN  r.ret =>
              \A k \in 1..Len(players) :
                 ~SameCell(Newcomer(r.players).position, players[k].position)

\* the last call has put a ship on the fourth spawn position, the first three
\* being taken by other ships, one of them eliminated
C11_Witness ==
    /\ last.op = "add_player"
    /\ Len(players) >= 4
    /\ Newcomer(players).id = last.id
    /\ Newcomer(players).position = spawn_positions[4]
    /\ \A c \in 1..3 : \E k \in 1..(Len(players) - 1) :
          players[k].position = spawn_positions[c]
    /\ \E k \in 1..(Len(players) - 1) :
          ~players[k].active /\ players[k].position = spawn_positions[1]

\* C12: add_player(id) returns failure exactly when id is in the registry or no
\* spawn position is inside the grid, off the walls and unoccupied, and a call
\* that fails leaves the registry, with every field of every ship, as it was.
C12_AddFailure ==
    \A id \in SpawnIds, name \in NameInputs :
        LET r == add_player_call(players, walls, id, name)
        IN  /\ ~r.ret <=> (id \in Registered(players) \/ FreeCandidates(players, walls) = {})
            /\ ~r.ret => r.players = players

\* all four spawn positions are taken, so that a new id is refused as well as
\* a registered one
C12_Witness ==
    /\ FreeCandidates(players, walls) = {}
    /\ Len(players) = 4
    /\ \E id \in SpawnIds \ Registered(players) :
          ~add_player_call(players, walls, id, None).ret
    /\ \E id \in Registered(players) :
          ~add_player_call(players, walls, id, None).ret

\* C13: an add_player that succeeds appends one ship and leaves the others as
\* they are; the new ship stands on the first spawn position, in the order
\* centre, right, left, below, that is valid and unoccupied, with INITIAL_LIFES
\* lives, active, rotation 0, no shield up, shield available and not yet used.
C13_SpawnFirstFree ==
    \A id \in SpawnIds, name \in NameInputs :
        LET r == add_player_call(players, walls, id, name)
            new == Newcomer(r.players)
        IN  r.ret =>
              /\ Len(r.players) = Len(players) + 1
              /\ \A k \in 1..Len(players) : r.players[k] = players[k]
              /\ spawn_positions =
                    <<Cell(center_x, center_y), Cell(center_x + 3, center_y),
                      Cell(center_x - 3, center_y), Cell(center_x, center_y + 3)>>
              /\ new.position = spawn_positions[Min(FreeCandidates(players, walls))]
              /\ new.id = id
              /\ new.lifes = INITIAL_LIFES
              /\ new.active
              /\ new.rotation = 0
              /\ ~new.shield_active
              /\ new.shield_available
              /\ ~new.shield_used

\* the last call has put a ship on the third spawn position (left of the
\* centre) while the fourth was free and the first two were taken
C13_Witness ==
    /\ last.op = "add_player"
    /\ Newcomer(players).id = last.id
    /\ Newcomer(players).position = spawn_positions[3]
    /\ Newcomer(players).lifes = INITIAL_LIFES
    /\ \A c \in 1..2 : \E k \in 1..(Len(players) - 1) :
          players[k].position = spawn_positions[c]
    /\ \A k \in 1..Len(players) : players[k].position # spawn_positions[4]

\* C14: a command call that returns failure changes nothing.  Each call that
\* would fail in this state (add_player, remove_player, move_player,
\* rotate_player, fire_laser, activate_shield, for any id and direction) hands
\* back the registry or laser list it was given, and a step that is not
\* counted as a success leaves registry, lasers, mines, flash flag and game_over
\* as they are.
C14_FailureChangesNothing ==
    [][/\ \A id \in Ids :
            /\ \A name \in NameInputs :
                  LET r == add_player_call(players, walls, id, name)
                  IN  ~r.ret => r.players = players
            /\ LET r == remove_player_call(players, id)
               IN  ~r.ret => r.players = players
            /\ LET r == move_player_call(players, walls, id)
               IN  ~r.ret => r.players = players
            /\ \A d \in Directions :
                  LET r == rotate_player_call(players, id, d)
                  IN  ~r.ret => r.players = players
            /\ LET r == fire_laser_call(players, lasers, id)
               IN  ~r.ret => r.lasers = lasers
            /\ LET r == activate_shield_call(players, id, now)
               IN  ~r.ret => r.players = players
       /\ steps' = steps =>
            UNCHANGED <<players, lasers, mines, is_flashing, flash_start_time,
                        game_over>>]_vars

\* one ship, its shield used up, faces a wall; the other id is unknown: a move
\* of the ship, a second shield, a rotation "up" and every call for the
\* unknown id fail
C14_Witness ==
    /\ steps < MaxSteps
    /\ \E id \in Registered(players) :
          /\ Get(players, id).active
          /\ Get(players, id).shield_used
          /\ ~move_player_call(players, walls, id).ret
          /\ ~activate_shield_call(players, id, now).ret
          /\ ~rotate_player_call(players, id, "up").ret
          /\ ~add_player_call(players, walls, id, None).ret
    /\ \E id \in Ids \ Registered(players) :
          /\ ~remove_player_call(players, id).ret
          /\ ~fire_laser_call(players, lasers, id).ret
          /\ ~move_player_call(players, walls, id).ret

\* C15: no operation raises: update never ends in an exception.
C15_NeverRaises == pc # "crashed"

\* C16: activate_shield(id) on an eliminated ship returns failure and leaves
\* its shield flags as they are.
C16_ShieldNeedsActive ==
    \A id \in Registered(players) :
        ~Get(players, id).active =>
           activate_shield_call(players, id, now) = [ret |-> FALSE, players |-> players]

C18_OneHitOthersStay ==
    \A dt \in DtChoices, k \in Turns :
        LET b == BeforeCollisions(GS, walls, dt, now + dt)
            a == update(GS, walls, dt, now + dt)
            p == b.players[k]
            F == ForeignLasersAt(b.lasers, p)
        IN  (p.active /\ ~p.shield_active /\ Cardinality(F) >= 2) =>
               /\ a.players[k].lifes = p.lifes - LASER_DAMAGE
               /\ ~a.lasers[Min(F)].active
               /\ \A j \in F \ {Min(F)} : a.lasers[j].active

\* C18: a ship takes at most one laser hit in a tick.  When the turn of an
\* active, unshielded ship comes with two or more active lasers of other owners
\* in its cell, that turn takes exactly 1 life and deactivates exactly one
\* laser, the first of them in list order, and the ship has just that one life
\* less when update returns; any other of those lasers is inactive after the
\* tick only if a later ship stands in the same cell.
C18_OneHitPerTurn ==
    \A dt \in DtChoices, k \in Turns :
        LET b == AtTurn(k, dt)
            t == AfterTurn(k, dt)
            a == update(GS, walls, dt, now + dt)
            p == b.players[k]
            F == ForeignLasersAt(b.lasers, p)
        IN  (p.active /\ ~p.shield_active /\ Cardinality(F) >= 2) =>
               /\ t.players[k].lifes = p.lifes - LASER_DAMAGE
               /\ t.lasers = [b.lasers EXCEPT ![Min(F)].active = FALSE]
               /\ a.players[k].lifes = players[k].lifes - LASER_DAMAGE
               /\ \A j \in F \ {Min(F)} :
                     ~a.lasers[j].active =>
                        \E k2 \in (k + 1)..Len(players) :
                           SameCell(players[k2].position, p.position)

\* an update has let one of several lasers in a ship's cell hit it: the ship
\* has lost one life, one of those lasers is inactive and another still active
C18_Witness ==
    /\ last.op = "update"
    /\ \E k \in Turns, j1 \in 1..Len(lasers), j2 \in 1..Len(lasers) :
          /\ players[k].lifes = INITIAL_LIFES - LASER_DAMAGE
          /\ j1 < j2
          /\ ~lasers[j1].active
          /\ lasers[j1].owner_id # players[k].id
          /\ SameCell(lasers[j1].position, players[k].position)
          /\ j2 \in ForeignLasersAt(lasers, players[k])

\* the mine list as the laser loop of the update(dt) called in this state
\* finds it when the turn of the laser at index i comes
MinesBefore(i, dt) == LaserLoop(SubSeq(lasers, 1, i - 1), 1, <<>>, mines, walls, dt).mines

\* C19: in the laser loop of every update, an active laser that the advance
\* leaves inside the bounds, outside every wall cell and in the cell of a mine
\* removes that mine and no other, the first such in list order, and is
\* deactivated; a laser that the advance takes out of the bounds or into a
\* wall cell removes no mine; no laser removes more than one mine, and the
\* whole loop removes no more mines than there are active lasers.
C19_LaserTakesOneMine ==
    \A dt \in DtChoices :
        /\ \A i \in 1..Len(lasers) :
              LET ms == MinesBefore(i, dt)
                  r == LaserIter(lasers[i], ms, walls, dt)
                  pos == MovedLaser(lasers[i], dt).position
                  M == MinesAt(ms, pos)
                  out == ~InsideGrid(pos) \/ (\E c \in walls : SameCell(c, pos))
              IN  /\ Len(r.mines) >= Len(ms) - 1
                  /\ ~lasers[i].active => r.mines = ms
                  /\ lasers[i].active /\ out => r.mines = ms /\ ~r.laser.active
                  /\ lasers[i].active /\ ~out /\ M # {} =>
                        /\ r.mines = RemoveAt(ms, Min(M))
                        /\ ~r.laser.active
                        /\ r.laser.position = pos
                  /\ lasers[i].active /\ ~out /\ M = {} => r.mines = ms /\ r.laser.active
        /\ Len(mines) - Len(BeforeCollisions(GS, walls, dt, now + dt).mines)
              <= Len(ActiveLasers(lasers))

\* an update has let a laser consume a mine: no ship has lost a life, a mine
\* of the map is gone while an earlier one in the list is still there, and an
\* inactive laser lies in the cell the missing mine had
C19_Witness ==
    /\ last.op = "update"
    /\ \A k \in Turns : players[k].lifes = INITIAL_LIFES
    /\ \E n \in 2..Len(MINES), j \in 1..Len(lasers) :
          /\ MinesAt(mines, MINES[n]) = {}
          /\ MinesAt(mines, MINES[1]) # {}
          /\ ~lasers[j].active
          /\ SameCell(lasers[j].position, MINES[n])

\* C20: for a ship that stays registered, (1) a successful activate_shield
\* leaves shield_active true; (2) an active shield goes off only in an update
\* at which the time since shield_start_time exceeds SHIELD_DURATION, and the
\* first such update does turn it off; (3) that update has turned it off when
\* its collision pass begins, so a mine in the ship's cell costs it 3 lives,
\* while an update before that leaves the shield on and the lives as they are;
\* (4) a shield that has been used and is off never comes on again.
C20_ShieldLifetime ==
    [][/\ \A id \in Registered(players) \cap Registered(players') :
            LET p == Get(players, id)
                q == Get(players', id)
            IN  /\ Did("activate_shield", id) => q.shield_active
                /\ p.shield_active /\ ~q.shield_active =>
                      /\ now' - p.shield_start_time > ShieldUnits
                      /\ pc = "shields" \/ (pc = "idle" /\ last'.op = "update")
                /\ ( /\ p.shield_active
                     /\ pc = "idle" /\ pc' = "idle"
                     /\ Did("update", None)
                     /\ now' - p.shield_start_time > ShieldUnits ) => ~q.shield_active
                /\ p.shield_used /\ ~p.shield_active => ~q.shield_active
       /\ pc = "idle" =>
            \A dt \in DtChoices, k \in Turns :
                LET b == BeforeCollisions(GS, walls, dt, now + dt)
                    c == AtTurn(k, dt)
                    m == AfterMines(k, dt)
                    p == players[k]
                    late == now + dt - p.shield_start_time > ShieldUnits
                IN  p.shield_active =>
                      /\ b.players[k].shield_active = ~late
                      /\ (p.active /\ MinesAt(c.mines, p.position) # {}) =>
                            m.players[k].lifes =
                               IF late THEN p.lifes - MINE_DAMAGE ELSE p.lifes]_vars

\* C21: for every registered active ship, fire_laser(id) succeeds and appends
\* exactly one laser to the list: active, at the ship's position, owned by id,
\* with the unit vector of the ship's rotation, the one move_player moves the
\* ship by, as its direction; nothing else is touched, and three calls in a row
\* all succeed and append three such lasers.
C21_FireAppendsOne ==
    \A id \in Registered(players) :
        LET p == Get(players, id)
            shot == [position |-> p.position, direction |-> UnitVector(p.rotation),
                     owner_id |-> id, active |-> TRUE]
            r1 == fire_laser_call(players, lasers, id)
            r2 == fire_laser_call(players, r1.lasers, id)
            r3 == fire_laser_call(players, r2.lasers, id)
        IN  p.active =>
              /\ r1.ret /\ r2.ret /\ r3.ret
              /\ r1.lasers = Append(lasers, shot)
              /\ r3.lasers = lasers \o <<shot, shot, shot>>
              /\ shot.direction = get_direction_vector(p.rotation)
              /\ new_position(p) = TargetCell(p)

\* a ship that has turned away from its spawn direction has just fired for the
\* second time in a row: its two lasers end the list, in its cell
C21_Witness ==
    /\ last.op = "fire_laser"
    /\ Len(lasers) >= 2
    /\ LET n == Len(lasers)
           p == Get(players, last.id)
       IN  /\ p.rotation # 0
           /\ lasers[n].owner_id = last.id /\ lasers[n - 1].owner_id = last.id
           /\ lasers[n].active /\ lasers[n - 1].active
           /\ lasers[n].position = p.position /\ lasers[n - 1].position = p.position
           /\ lasers[n].direction = UnitVector(p.rotation)
           /\ lasers[n - 1].direction = UnitVector(p.rotation)

\* a quarter turn clockwise and counter-clockwise on the four headings
QuarterRight(r) == IF r + 90 >= 360 THEN r + 90 - 360 ELSE r + 90
QuarterLeft(r) == IF r - 90 < 0 THEN r - 90 + 360 ELSE r - 90

\* C22: every registered ship's rotation is one of 0, 90, 180, 270.  For an
\* active ship rotate_player(id, "right") succeeds and turns r into
\* (r + 90) mod 360 and "left" into (r - 90) mod 360, touching nothing else, so
\* a left followed by a right, and four rights, give back the rotation; any
\* other direction string fails and leaves the registry as it is.
C22_QuarterTurns ==
    /\ \A k \in 1..Len(players) : players[k].rotation \in {0, 90, 180, 270}
    /\ \A id \in Registered(players) :
          LET p == Get(players, id)
              k == IndexOf(players, id)
              R == rotate_player_call(players, id, "right")
              L == rotate_player_call(players, id, "left")
              LR == rotate_player_call(L.players, id, "right")
              R2 == rotate_player_call(R.players, id, "right")
              R3 == rotate_player_call(R2.players, id, "right")
              R4 == rotate_player_call(R3.players, id, "right")
          IN  p.active =>
                /\ R.ret /\ L.ret /\ LR.ret /\ R4.ret
                /\ R.players = [players EXCEPT ![k].rotation = QuarterRight(p.rotation)]
                /\ L.players = [players EXCEPT ![k].rotation = QuarterLeft(p.rotation)]
                /\ LR.players = players
                /\ R4.players = players
                /\ \A d \in Directions \ {"right", "left"} :
                      LET r == rotate_player_call(players, id, d)
                      IN  ~r.ret /\ r.players = players

\* a ship has just turned left from heading 0 or right from heading 180: it
\* is at 270
C22_Witness ==
    /\ last.op = "rotate_player"
    /\ Get(players, last.id).rotation = 270
    /\ Get(players, last.id).active

\* C23: remove_player(id) returns success exactly when id is registered, be
\* the ship active or eliminated.  The registry is then the old one without
\* that ship, the others as they were and in their order, and a second removal
\* fails; for an unknown id it fails and hands the registry back.  A step in
\* which remove_player succeeded has changed nothing but the registry: lasers
\* (those of id among them), mines, flash flag and clock are as before.
C23_RemoveOnlyUnregisters ==
    [][/\ \A id \in SpawnIds :
            LET r == remove_player_call(players, id)
                known == \E k \in 1..Len(players) : players[k].id = id
            IN  /\ r.ret = known
                /\ r.players = SelectSeq(players, LAMBDA p : p.id # id)
                /\ id \notin Registered(r.players)
                /\ ~remove_player_call(r.players, id).ret
                /\ ~known => r.players = players
       /\ \A id \in SpawnIds :
            Did("remove_player", id) =>
               /\ id \in Registered(players)
               /\ players' = SelectSeq(players, LAMBDA p : p.id # id)
               /\ UNCHANGED <<lasers, mines, walls, is_flashing, flash_start_time,
                              game_over, now>>]_vars

\* a ship that had fired has just been removed: its laser is still in the
\* list, active, and another ship is still registered
C23_Witness ==
    /\ last.op = "remove_player"
    /\ last.id \notin Registered(players)
    /\ Len(players) >= 1
    /\ \E j \in 1..Len(lasers) : lasers[j].owner_id = last.id /\ lasers[j].active

\* the registry with the same ships inserted in the opposite order
Reversed(ps) == [k \in 1..Len(ps) |-> ps[Len(ps) + 1 - k]]

\* what an update leaves of a ship, for the comparison of two outcomes
Outcome(p) ==
    [lifes |-> p.lifes, active |-> p.active, shield_active |-> p.shield_active]

\* C24: the order of insertion into the registry does not matter to a tick.
\* update(dt) called in this state and update(dt) called in the state that
\* differs from it only in the order of the registry leave every ship the same
\* lives, active flag and shield flag, and leave the same mines and lasers.
C24_OrderIrrelevant ==
    \A dt \in DtChoices :
        LET a == update(GS, walls, dt, now + dt)
            b == update([GS EXCEPT !.players = Reversed(players)], walls, dt, now + dt)
        IN  /\ \A id \in Registered(players) :
                  Outcome(Get(a.players, id)) = Outcome(Get(b.players, id))
            /\ {a.mines[j] : j \in 1..Len(a.mines)} = {b.mines[j] : j \in 1..Len(b.mines)}
            /\ {a.lasers[j] : j \in 1..Len(a.lasers)} =
                  {b.lasers[j] : j \in 1..Len(b.lasers)}

\* the entries of a list of offsets, with their multiplicities
Offsets(list) == [d \in {list[j] : j \in 1..Len(list)} |->
                     Cardinality({j \in 1..Len(list) : list[j] = d})]

\* whether an entity at position e is at most 5 cells from ship p on each axis
Near(e, p) ==
    /\ e[1] - p.position[1] <= 5 * SUB /\ p.position[1] - e[1] <= 5 * SUB
    /\ e[2] - p.position[2] <= 5 * SUB /\ p.position[2] - e[2] <= 5 * SUB

\* C25: get_environment_state has one entry for each registered ship, active
\* or eliminated, and no other.  The entry lists, as offsets from the ship's
\* position, exactly the walls, the mines and the lasers of the game that are
\* at most 5 cells away on each axis, each as often as it is there, and carries
\* the game_over flag; nothing farther away is listed.
C25_EnvironmentView ==
    LET view == get_environment_state(players, walls, mines, lasers, game_over)
    IN  /\ DOMAIN view = {players[k].id : k \in 1..Len(players)}
        /\ \A k \in 1..Len(players) :
              LET p == players[k]
                  v == view[p.id]
                  off(e) == <<e[1] - p.position[1], e[2] - p.position[2]>>
                  nearMines == {j \in 1..Len(mines) : Near(mines[j], p)}
                  nearLasers == {j \in 1..Len(lasers) : Near(lasers[j].position, p)}
              IN  /\ v.game_over = game_over
                  /\ v.walls = {off(c) : c \in {c \in walls : Near(c, p)}}
                  /\ Len(v.mines) = Cardinality(nearMines)
                  /\ \A d \in DOMAIN Offsets(v.mines) :
                        Offsets(v.mines)[d] =
                           Cardinality({j \in nearMines : off(mines[j]) = d})
                  /\ \A j \in nearMines : off(mines[j]) \in DOMAIN Offsets(v.mines)
                  /\ Len(v.lasers) = Cardinality(nearLasers)
                  /\ \A d \in DOMAIN Offsets(v.lasers) :
                        Offsets(v.lasers)[d] =
                           Cardinality({j \in nearLasers : off(lasers[j].position) = d})
                  /\ \A j \in nearLasers :
                        off(lasers[j].position) \in DOMAIN Offsets(v.lasers)

\* a ship whose view holds a wall, a mine and a laser, one of them exactly 5
\* cells away on an axis, while a wall, a mine and a laser of the game are too
\* far away to be in it
C25_Witness ==
    \E k \in 1..Len(players) :
        LET p == players[k]
            v == get_environment_state(players, walls, mines, lasers, game_over)[p.id]
        IN  /\ \E j \in 1..Len(v.mines) :
                  Abs(v.mines[j][1]) = 5 * SUB \/ Abs(v.mines[j][2]) = 5 * SUB
            /\ v.walls # {}
            /\ \E c \in walls : ~Near(c, p)
            /\ Len(v.mines) < Len(mines)
            /\ Len(v.lasers) >= 1 /\ Len(v.lasers) < Len(lasers)

\* C26: get_state() is the union of the two views, whatever ids are
\* registered: its entry 'players' is the entry 'players' of get_player_state(),
\* and for each registered id its entry under that id is that of
\* get_environment_state().
C26_StateIsUnion ==
    LET both == get_state(players, walls, mines, lasers, game_over)
        env == get_environment_state(players, walls, mines, lasers, game_over)
    IN  /\ "players" \in DOMAIN both
        /\ both["players"] = get_player_state(players)["players"]
        /\ \A id \in Registered(players) : id \in DOMAIN both /\ both[id] = env[id]

\* C27: when an update has returned, every active laser of the list is inside
\* [0, GRID_WIDTH) x [0, GRID_HEIGHT), its cell is no wall cell and no mine that
\* is left in the mine list lies in its cell.
C27_ActiveLasersAreClear ==
    (last.op = "update" /\ pc = "idle") =>
        \A j \in 1..Len(lasers) :
            lasers[j].active =>
               /\ InsideGrid(lasers[j].position)
               /\ \A c \in walls : ~SameCell(c, lasers[j].position)
               /\ MinesAt(mines, lasers[j].position) = {}

\* C28: a register or unregister call that the API thread makes while update
\* or _check_collisions iterates over the registry does not make the tick fail:
\* no step of the game loop taken with the registry changed under a running
\* iteration ends the loop, and the game loop is never found stopped.
C28_TickSurvivesRegistryChange ==
    [][/\ (pc \in {"shields", "collide"} /\ Len(players) # it.n) => pc' # "crashed"
       /\ pc # "crashed"]_vars

\* C29: an eliminated ship is transparent to the collision pass.  The turn of
\* a ship whose active flag is false leaves the game as it is: the mines and
\* the active lasers in its cell are still there for the ships whose turns
\* follow.  In the pass taken loop by loop, a mine loop or a laser loop that
\* runs for a ship whose active flag is false removes no mine, deactivates no
\* laser and changes no ship.
C29_EliminatedIsTransparent ==
    [][/\ pc = "idle" =>
            \A dt \in DtChoices, k \in Turns :
                LET b == AtTurn(k, dt)
                    a == AfterTurn(k, dt)
                IN  ~b.players[k].active =>
                      /\ a = b
                      /\ \A k2 \in (k + 1)..Len(players) :
                            LET c == AtTurn(k2, dt)
                            IN  (SameCell(c.players[k2].position, b.players[k].position)
                                   /\ \A k1 \in (k + 1)..(k2 - 1) : ~c.players[k1].active) =>
                                  /\ MinesAt(c.mines, c.players[k2].position) =
                                        MinesAt(b.mines, b.players[k].position)
                                  /\ ForeignLasersAt(c.lasers, c.players[k2]) =
                                        {j \in ForeignLasersAt(b.lasers, b.players[k]) :
                                            b.lasers[j].owner_id # c.players[k2].id}
       /\ (pc \in {"collide", "collide_lasers"} /\ it.i <= Len(players)
             /\ Len(players) = it.n /\ ~players[it.i].active) =>
            UNCHANGED <<players, lasers, mines>> \/ pc' = pc]_vars

\* C30: the flash flag signals damage only.  In every step in which
\* is_flashing turns from false to true some ship has lost lives, and
\* flash_start_time is the time of that step; a hit that a shield absorbs does
\* not set it.  In every step in which it turns from true to false, more than
\* FLASH_DURATION has passed since flash_start_time, the step belongs to an
\* update, and no command ever writes it.
C30_FlashSignalsDamage ==
    [][/\ (~is_flashing /\ is_flashing') =>
            /\ Len(players') = Len(players)
            /\ \E k \in 1..Len(players) : players'[k].lifes < players[k].lifes
            /\ flash_start_time' = now'
       /\ (is_flashing /\ ~is_flashing') =>
            /\ now' - flash_start_time > FlashUnits
            /\ (pc = "idle" /\ last'.op = "update") \/ pc = "flash"
       /\ (pc = "idle" /\ last'.op # "update" /\ pc' = "idle") =>
            UNCHANGED <<is_flashing, flash_start_time>>
       /\ (is_flashing' /\ flash_start_time' # flash_start_time) =>
            \E k \in 1..Len(players) :
               Len(players') = Len(players) /\ players'[k].lifes < players[k].lifes]_vars

\* an update has let a shield absorb a mine: the mine is gone, the ship has
\* its lives and the flag is not set
C30_Witness ==
    /\ last.op = "update"
    /\ ~is_flashing
    /\ Len(mines) < Len(MINES)
    /\ \E k \in 1..Len(players) :
          /\ players[k].shield_active
          /\ players[k].lifes = INITIAL_LIFES
          /\ \E n \in 1..Len(MINES) : SameCell(players[k].position, MINES[n])
    /\ \A j \in 1..Len(lasers) : lasers[j].active

\* the ships of the registry other than id are as they were, and in their places
OthersKept(id) ==
    /\ Len(players') = Len(players)
    /\ \A k \in 1..Len(players) : players[k].id # id => players'[k] = players[k]

\* C31: commands touch only their target.  A step in which move_player(id)
\* succeeded has changed the position of ship id and nothing else, one of
\* rotate_player its rotation, one of activate_shield its four shield fields;
\* the lasers in the list, where and whatever they are, stay as they were.  A
\* step of fire_laser has left every ship and every laser of the list as it
\* was and appended one laser.  None of them changes the mines, the walls,
\* game_over, the flash flag or the clock.
C31_CommandsTouchTarget ==
    [][\A id \in Ids :
          LET k == IndexOf(players, id)
              rest == UNCHANGED <<mines, walls, game_over, is_flashing,
                                  flash_start_time, now>>
          IN  /\ Did("move_player", id) =>
                    /\ OthersKept(id) /\ rest /\ lasers' = lasers
                    /\ players'[k] = [players[k] EXCEPT !.position = players'[k].position]
              /\ Did("rotate_player", id) =>
                    /\ OthersKept(id) /\ rest /\ lasers' = lasers
                    /\ players'[k] = [players[k] EXCEPT !.rotation = players'[k].rotation]
              /\ Did("activate_shield", id) =>
                    /\ OthersKept(id) /\ rest /\ lasers' = lasers
                    /\ players'[k] =
                          [players[k] EXCEPT
                              !.shield_active = players'[k].shield_active,
                              !.shield_available = players'[k].shield_available,
                              !.shield_used = players'[k].shield_used,
                              !.shield_start_time = players'[k].shield_start_time]
              /\ Did("fire_laser", id) =>
                    /\ players' = players /\ rest
                    /\ Len(lasers') = Len(lasers) + 1
                    /\ SubSeq(lasers', 1, Len(lasers)) = lasers]_vars

\* a ship that had fired has just moved away from the cell of its laser, which
\* is still there, while another ship is registered
C31_Witness ==
    /\ last.op = "move_player"
    /\ Len(players) >= 2
    /\ \E j \in 1..Len(lasers) :
          /\ lasers[j].owner_id = last.id
          /\ lasers[j].active
          /\ ~SameCell(lasers[j].position, Get(players, last.id).position)
          /\ lasers[j].position[1] = Get(players, last.id).position[1]

\* C32: with update running as one step, an update takes 0, 1 or 3 lives from
\* a ship, never 4.  When the turn of an active ship comes in the collision
\* pass, no mine and active laser of another owner are in its cell together:
\* the laser loop of the update has let every laser that met a mine consume it.
\* The turn takes 3 lives exactly for a mine and 1 exactly for a laser, from an
\* unshielded ship, and no ship's lives are ever below -2.
C32_NeverFourInOneTick ==
    /\ \A k \in 1..Len(players) : players[k].lifes >= -2
    /\ \A dt \in DtChoices, k \in Turns :
          LET b == AtTurn(k, dt)
              a == update(GS, walls, dt, now + dt)
              p == b.players[k]
              M == MinesAt(b.mines, p.position)
              F == ForeignLasersAt(b.lasers, p)
              lost == players[k].lifes - a.players[k].lifes
          IN  /\ lost \in {0, LASER_DAMAGE, MINE_DAMAGE}
              /\ p.active => (M = {} \/ F = {})
              /\ lost = MINE_DAMAGE <=> (p.active /\ ~p.shield_active /\ M # {})
              /\ lost = LASER_DAMAGE <=> (p.active /\ ~p.shield_active /\ F # {})
              /\ a.players[k].lifes >= -2

\* an update in which lasers came into the cell of a ship standing on a mine:
\* one laser has consumed the mine, the next has hit the ship, which has lost
\* one life and not four
C32_Witness ==
    /\ last.op = "update"
    /\ \E k \in 1..Len(players), n \in 1..Len(MINES) :
          /\ SameCell(players[k].position, MINES[n])
          /\ MinesAt(mines, MINES[n]) = {}
          /\ players[k].lifes = INITIAL_LIFES - LASER_DAMAGE
          /\ \E j1, j2 \in 1..Len(lasers) :
                /\ j1 < j2
                /\ ~lasers[j1].active /\ ~lasers[j2].active
                /\ lasers[j1].owner_id # players[k].id
                /\ lasers[j2].owner_id # players[k].id
                /\ SameCell(lasers[j1].position, players[k].position)
                /\ SameCell(lasers[j2].position, players[k].position)

\* C33: in every reachable state every registered ship stands on an integer
\* cell inside [0, GRID_WIDTH) x [0, GRID_HEIGHT) that is no wall cell.
C33_ShipOnFreeCell ==
    \A k \in 1..Len(players) :
        LET pos == players[k].position
        IN  /\ pos[1] % SUB = 0 /\ pos[2] % SUB = 0
            /\ InsideGrid(pos)
            /\ pos \notin walls


\* a ship has moved up to the edge of the grid, where no border wall stands,
\* and faces the outside; another has moved up to a wall and faces it
C33_Witness ==
    /\ last.op = "move_player"
    /\ \E k \in 1..Len(players) :
          /\ players[k].active
          /\ \/ ~InsideGrid(TargetCell(players[k]))
             \/ TargetCell(players[k]) \in walls
          /\ ~move_player_call(players, walls, players[k].id).ret
          /\ last.id = players[k].id

\* a ship as a registration makes it
Fresh(p) ==
    /\ p.active /\ p.lifes = INITIAL_LIFES /\ p.rotation = 0
    /\ p.shield_available /\ ~p.shield_used /\ ~p.shield_active

\* C34: elimination and shield use end with the registration.  For every
\* registered ship, whatever its lives, active flag and shield flags are,
\* remove_player(id) followed by a successful add_player(id) leaves under id an
\* active ship with INITIAL_LIFES lives, rotation 0 and an unused, available
\* shield, and the other ships as they were; and every step in which
\* add_player(id) succeeded has left such a ship under id.
C34_FreshOnReRegistration ==
    [][/\ \A id \in Registered(players), name \in NameInputs :
            LET r == remove_player_call(players, id)
                a == add_player_call(r.players, walls, id, name)
            IN  /\ r.ret
                /\ a.ret =>
                     /\ id \in Registered(a.players)
                     /\ Fresh(Get(a.players, id))
                     /\ \A k \in 1..Len(r.players) : a.players[k] = r.players[k]
       /\ \A id \in Ids :
            Did("add_player", id) =>
               id \in Registered(players') /\ Fresh(Get(players', id))]_vars

\* player1, which had 2 lives and stood on a mine, has been eliminated by the
\* update, removed and registered again: the mine is gone, the other ship has
\* never been hit, and player1 is a fresh ship
C34_Witness ==
    /\ last = [op |-> "add_player", id |-> "player1"]
    /\ pc = "idle"
    /\ Len(mines) < Len(RacePrefix.mines)
    /\ lasers = <<>>
    /\ Fresh(Get(players, "player1"))
    /\ "players" \in Registered(players)
    /\ Get(players, "players").lifes = INITIAL_LIFES
    /\ ~Get(players, "players").shield_used
    /\ IndexOf(players, "players") = 1

\* C35: every laser is eventually removed.  With update called again and
\* again with a positive dt, and firing at an end after finitely many shots,
\* the laser list is empty from some point on: every laser that was fired has
\* been deactivated and then dropped from the list.
C35_LasersDrain == <>[](lasers = <<>>)


\* a laser has been fired and is gone: after an update the laser list is empty
\* and a mine of the map is missing, while every ship is still in the row of
\* the centre cell, which holds no mine, with all its lives
C35_Witness ==
    /\ last.op = "update"
    /\ lasers = <<>>
    /\ Len(mines) < Len(MINES)
    /\ Turns # {}
    /\ \A k \in Turns :
          /\ players[k].lifes = INITIAL_LIFES
          /\ players[k].position[2] = Cell(4, 4)[2]


\* Every dt that takes a laser from one side of the grid to the other or less.
DtPath == 0..(GridRows * SUB)

\* the cells a laser comes through while update_laser_position carries it
\* over dt, the cell it arrives in included
PathCells(laser, dt) == {GridCell(MovedLaser(laser, u).position) : u \in 1..dt}

\* C36: a laser never passes through a wall cell.  For every active laser of
\* every reachable state and every dt, if the straight path the laser travels
\* in an update with that dt comes through a wall cell, then the laser is
\* inactive after its turn of that update.
C36_NoTunnelling ==
    \A j \in 1..Len(lasers), dt \in DtPath :
        (lasers[j].active /\ PathCells(lasers[j], dt) \cap walls # {})
            => ~LaserIter(lasers[j], mines, walls, dt).laser.active


(* The map as compiled in: config/game_config.py with the screen of 900 by
   600 pixels, the walls of "world 2" and the mines of "mines 2". *)
COMPILED_SCREEN_WIDTH == 900
COMPILED_SCREEN_HEIGHT == 600
COMPILED_GRID_WIDTH == COMPILED_SCREEN_WIDTH \div CELL_SIZE
COMPILED_GRID_HEIGHT == COMPILED_SCREEN_HEIGHT \div CELL_SIZE

COMPILED_BORDER_WALLS ==
    {Cell(x, 1) : x \in 0..(COMPILED_GRID_WIDTH - 1)} \cup
    {Cell(x, COMPILED_GRID_HEIGHT - 1) : x \in 0..(COMPILED_GRID_WIDTH - 1)} \cup
    {Cell(0, y) : y \in 0..(COMPILED_GRID_HEIGHT - 1)} \cup
    {Cell(COMPILED_GRID_WIDTH - 1, y) : y \in 0..(COMPILED_GRID_HEIGHT - 1)}

COMPILED_OBSTACLE_WALLS2 ==
    {Cell(6, 3), Cell(7, 3), Cell(8, 3), Cell(10, 4),
     Cell(11, 5), Cell(12, 6), Cell(14, 4), Cell(15, 4),
     Cell(16, 4), Cell(20, 3), Cell(21, 3), Cell(22, 4),
     Cell(22, 5), Cell(19, 6), Cell(18, 7), Cell(17, 8),
     Cell(6, 9), Cell(7, 9), Cell(8, 10), Cell(9, 11),
     Cell(10, 12), Cell(11, 12), Cell(12, 12), Cell(14, 10),
     Cell(15, 10), Cell(16, 10), Cell(17, 10), Cell(18, 11),
     Cell(19, 12), Cell(20, 13), Cell(8, 15), Cell(9, 15),
     Cell(10, 15), Cell(12, 16), Cell(13, 17), Cell(14, 17),
     Cell(16, 16), Cell(17, 15), Cell(18, 15), Cell(21, 14),
     Cell(22, 13), Cell(23, 12)}

COMPILED_WALLS == COMPILED_BORDER_WALLS \cup COMPILED_OBSTACLE_WALLS2

COMPILED_MINES ==
    <<Cell(2, 2), Cell(13, 2), Cell(18, 2), Cell(25, 4),
      Cell(3, 7), Cell(5, 11), Cell(4, 14), Cell(9, 7),
      Cell(13, 8), Cell(19, 9), Cell(24, 10), Cell(26, 7),
      Cell(27, 11), Cell(25, 15), Cell(11, 14), Cell(15, 13),
      Cell(20, 16)>>

\* add_player on that grid: the centre and the spawn positions around it
compiled_center_x == COMPILED_GRID_WIDTH \div 2
compiled_center_y == COMPILED_GRID_HEIGHT \div 2

compiled_spawn_positions ==
    <<Cell(compiled_center_x, compiled_center_y),
      Cell(compiled_center_x + 3, compiled_center_y),
      Cell(compiled_center_x - 3, compiled_center_y),
      Cell(compiled_center_x, compiled_center_y + 3)>>

InCompiledWorld(position) ==
    /\ position[1] >= 0
    /\ position[1] < COMPILED_GRID_WIDTH * SUB
    /\ position[2] >= 0
    /\ position[2] < COMPILED_GRID_HEIGHT * SUB

is_valid_move_Compiled(position, w) ==
    /\ ~check_wall_collision(position, w)
    /\ InCompiledWorld(position)

FindSpawn_Compiled(ps, w) ==
    LET free == {k \in 1..Len(compiled_spawn_positions) :
                    /\ is_valid_move_Compiled(compiled_spawn_positions[k], w)
                    /\ ~Occupied(ps, compiled_spawn_positions[k])}
    IN  IF free = {} THEN 0 ELSE Min(free)

add_player_call_Compiled(ps, w, player_id, name) ==
    IF player_id \in Registered(ps)
    THEN [ret |-> FALSE, players |-> ps]
    ELSE LET spawn_pos == FindSpawn_Compiled(ps, w)
         IN  IF spawn_pos = 0
             THEN [ret |-> FALSE, players |-> ps]
             ELSE [ret |-> TRUE,
                   players |-> Append(ps, NewPlayer(ps, compiled_spawn_positions[spawn_pos],
                                                    player_id, name))]

add_player_Compiled(player_id, name) ==
    LET r == add_player_call_Compiled(players, walls, player_id, name)
    IN  /\ players' = r.players
        /\ Returns("add_player", player_id, r.ret)
        /\ UNCHANGED <<lasers, mines, is_flashing, flash_start_time>>

\* Registration and ticks on the compiled-in map: players come and go and
\* issue no command, so no laser is ever in play.
InitCompiled ==
    /\ players = <<>>
    /\ lasers = <<>>
    /\ mines = COMPILED_MINES
    /\ walls = COMPILED_WALLS
    /\ is_flashing = FALSE
    /\ flash_start_time = 0
    /\ game_over = FALSE
    /\ now = 0
    /\ last = [op |-> "init", id |-> None]
    /\ steps = 0
    /\ pc = "idle"
    /\ it = Idle

NextCompiled ==
    \/ \E id \in SpawnIds, name \in NameInputs : pc = "idle" /\ add_player_Compiled(id, name)
    \/ \E id \in SpawnIds : pc = "idle" /\ remove_player(id)
    \/ \E dt \in DtChoices : Tick(dt)

SpecCompiled == InitCompiled /\ [][NextCompiled]_vars

\* C37: with the compiled-in map add_player never places a ship on a mine.
\* In a game on that map in which players only register and unregister, and
\* so no laser is in play, every registered ship has INITIAL_LIFES lives in
\* every state, the states after an update included.
C37_SpawnClearOfMines ==
    \A k \in 1..Len(players) : players[k].lifes = INITIAL_LIFES


\* C38: game_over is false in every reachable state, whatever has become of
\* the ships; so the environment view of every registered ship reports
\* game_over = false, and an update call never takes the early return: it
\* yields what update computes, for every dt.
C38_GameNeverOver ==
    /\ game_over = FALSE
    /\ \A id \in Registered(players) :
          get_environment_state(players, walls, mines, lasers, game_over)[id].game_over = FALSE
    /\ \A dt \in DtChoices :
          (IF game_over THEN GS ELSE update(GS, walls, dt, now + dt))
              = update(GS, walls, dt, now + dt)

\* an update has left ships registered and none of them active
C38_Witness ==
    /\ last.op = "update"
    /\ players # <<>>
    /\ \A k \in 1..Len(players) : ~players[k].active

====
